---- MODULE Spec2Model ----
(***************************************************************************)
(* Model of src/src/server.py: the Trello bridge (TrelloClient and its     *)
(* _request method), the lazily constructed module-level client            *)
(* (get_client), the process-wide active selection (_active_board_id,      *)
(* _active_workspace_id) and the seventeen tool functions.                 *)
(*                                                                         *)
(* A tool invocation is run by a caller p as a sequence of steps (pc[p]),  *)
(* one step per access to module-level state or to the upstream service.   *)
(* Spec runs one invocation at a time; ConcSpec interleaves the steps of   *)
(* several callers.                                                        *)
(*                                                                         *)
(* Python values: an optional value is a sequence of length at most one    *)
(* (None is <<>>, the value v is <<v>>); a dict of query parameters is a   *)
(* function from its keys to strings; a URL path is the sequence of its    *)
(* segments split at "/", so a path with a leading slash starts with "".   *)
(***************************************************************************)
EXTENDS Integers, Sequences, FiniteSets, TLC

\* Number of concurrent callers of ConcSpec.
NumProcs == 2

Procs == 1..NumProcs

\* The caller of Spec, which runs one invocation at a time.
Main == CHOOSE p \in Procs : \A q \in Procs : p <= q

(***************************************************************************)
(* Python values                                                           *)
(***************************************************************************)
None == <<>>

Some(v) == <<v>>

\* Truth value of an optional string: None and "" are falsy.
Truthy(o) == o # None /\ o[1] # ""

\* Truth value of an optional list: None and [] are falsy.
TruthyList(o) == o # None /\ o[1] # <<>>

\* Python's `a or b` on optional strings.
Or(a, b) == IF Truthy(a) THEN a ELSE b

\* str() of an optional string, as an f-string interpolates it.
Str(o) == IF o = None THEN "None" ELSE o[1]

EmptyDict == [k \in {} |-> ""]

\* dict.update: the entries of b override those of a.
Update(a, b) == [k \in DOMAIN a \cup DOMAIN b |-> IF k \in DOMAIN b THEN b[k] ELSE a[k]]

\* d[k] = v on a dict.
SetItem(d, k, v) == Update(d, [x \in {k} |-> v])

RECURSIVE Join(_)
\* ",".join(labels)
Join(labels) ==
    IF labels = <<>> THEN ""
    ELSE IF Len(labels) = 1 THEN labels[1]
    ELSE labels[1] \o "," \o Join(Tail(labels))

(***************************************************************************)
(* Inputs                                                                  *)
(***************************************************************************)
ApiKeyValue == "KEY-SECRET"

TokenValue == "TOKEN-SECRET"

\* Environments the process can start in: both credentials set, the key
\* unset, the token set to the empty string.
EnvCredentials ==
    { [TRELLO_API_KEY |-> Some(ApiKeyValue), TRELLO_TOKEN |-> Some(TokenValue)],
      [TRELLO_API_KEY |-> None,              TRELLO_TOKEN |-> Some(TokenValue)],
      [TRELLO_API_KEY |-> Some(ApiKeyValue), TRELLO_TOKEN |-> Some("")] }

BoardIds == {"", "B1", "B2"}

OptBoardIds == {None} \cup {Some(b) : b \in BoardIds}

WorkspaceIds == {"", "W1"}

ListIds == {"L1"}

CardIds == {"C1"}

\* An optional string argument: omitted, empty, or v.
OptOf(v) == {None, Some(""), Some(v)}

OptLabels == {None, Some(<<>>), Some(<<"red", "blue">>)}

Limits == {10, 5}

\* Upstream responses: status codes on both sides of the error threshold and
\* bodies that parse to an object, parse to a non-object, or do not parse.
Statuses == {200, 400, 404}

RawObject == "{\"id\":\"x\"}"

RawArray == "[\"a\"]"

RawText == "invalid key"

RawBodies == {RawObject, RawArray, RawText}

(***************************************************************************)
(* JSON values: -type- is the Python type of the parsed value; a dict has  *)
(* one entry key: val, whose value has Python type -of-.                   *)
(***************************************************************************)
JsonDict(k, v, t) == [type |-> "dict", key |-> k, val |-> v, of |-> t]

JsonList(v) == [type |-> "list", key |-> "", val |-> v, of |-> "str"]

NoJson == [type |-> "none", key |-> "", val |-> "", of |-> ""]

JsonParses(raw) == raw \in {RawObject, RawArray}

\* resp.json() on a body that parses.
JsonOf(raw) == IF raw = RawObject THEN JsonDict("id", "x", "str") ELSE JsonList("a")

(***************************************************************************)
(* TrelloClient                                                            *)
(***************************************************************************)
DefaultTimeout == 30

ErrorStatus == 400

MsgNoCredentials == "Trello API credentials are not configured. Set TRELLO_API_KEY and TRELLO_TOKEN env vars."

MsgNoActiveBoard == "No active board set. Provide TRELLO_BOARD_ID or call set_active_board."

MsgNoBoard == "No board specified and no active board is set."

MsgApiError == "Trello API error"

MsgTransport == "transport failure"

\* InitRaises with the token left unchecked.
InitRaises_KeyOnly(api_key, token) == ~Truthy(api_key)

\* TrelloClient.__init__ raises TrelloError when either credential is falsy.
InitRaises(api_key, token) == ~Truthy(api_key) \/ ~Truthy(token)

\* The instance TrelloClient.__init__ builds; id numbers the instances of the process.
TrelloClient(id, api_key, token, debug) ==
    [id |-> id, api_key |-> api_key[1], token |-> token[1], debug |-> debug,
     timeout |-> DefaultTimeout]

\* AuthParams with the token forgotten.
AuthParams_KeyOnly(self, params) == Update(params, [key |-> self.api_key])

\* _request: the caller's params copied (None and {} both give {}), with the
\* two credentials written over them.
AuthParams(self, params) ==
    Update(params, [key |-> self.api_key, token |-> self.token])

\* _request: url = path if path.startswith("/") else "/" + path
NormalizeUrl(path) == IF path # <<>> /\ path[1] = "" THEN path ELSE <<"">> \o path

\* Masked with nothing masked.
Masked_Unmasked(params) == params

\* _request: the params as they are logged.
Masked(params) ==
    [k \in DOMAIN params |-> IF k \in {"key", "token"} THEN "***" ELSE params[k]]

\* _request: resp.json(), or {"text": resp.text} when the body does not parse.
ParseBody(raw) == IF JsonParses(raw) THEN JsonOf(raw) ELSE JsonDict("text", raw, "str")

\* _request: the status codes that raise.
IsErrorStatus(status) == status >= ErrorStatus

\* ErrorMsg with the body passed on as parsed.
ErrorMsg_Unwrapped(data) == data

\* _request: msg = data if isinstance(data, dict) else {"error": data}
ErrorMsg(data) == IF data.type = "dict" THEN data ELSE JsonDict("error", data.val, data.type)

\* What a helper hands to _request.
Call(method, path, params) == [method |-> method, path |-> path, params |-> params]

TrelloClient_get_board(board_id) ==
    Call("GET", <<"", "boards", board_id>>, [fields |-> "id,name,url"])

TrelloClient_list_boards ==
    Call("GET", <<"", "members", "me", "boards">>, [fields |-> "id,name,url"])

TrelloClient_list_boards_in_workspace(workspace_id) ==
    Call("GET", <<"", "organizations", workspace_id, "boards">>, [fields |-> "id,name,url"])

TrelloClient_get_lists(board_id) ==
    Call("GET", <<"", "boards", board_id, "lists">>, [fields |-> "id,name,closed"])

TrelloClient_add_list_to_board(board_id, name) ==
    Call("POST", <<"", "lists">>, [name |-> name, idBoard |-> board_id])

TrelloClient_archive_list(list_id) ==
    Call("PUT", <<"", "lists", list_id, "closed">>, [value |-> "true"])

TrelloClient_get_cards_by_list(list_id) ==
    Call("GET", <<"", "lists", list_id, "cards">>, EmptyDict)

TrelloClient_add_card_to_list(list_id, name, description, dueDate, labels) ==
    LET p0 == [idList |-> list_id, name |-> name]
        p1 == IF Truthy(description) THEN SetItem(p0, "desc", description[1]) ELSE p0
        p2 == IF Truthy(dueDate) THEN SetItem(p1, "due", dueDate[1]) ELSE p1
        p3 == IF TruthyList(labels) THEN SetItem(p2, "idLabels", Join(labels[1])) ELSE p2
    IN  Call("POST", <<"", "cards">>, p3)

TrelloClient_archive_card(card_id) ==
    Call("PUT", <<"", "cards", card_id, "closed">>, [value |-> "true"])

TrelloClient_attach_image_to_card(card_id, image_url, name) ==
    LET p0 == [url |-> image_url]
        p1 == IF Truthy(name) THEN SetItem(p0, "name", name[1]) ELSE p0
    IN  Call("POST", <<"", "cards", card_id, "attachments">>, p1)

\* move_card's first request.
TrelloClient_move_card(card_id, list_id) ==
    Call("PUT", <<"", "cards", card_id, "idList">>, [value |-> list_id])

\* MoveCardHasPos as `if pos is not None`.
MoveCardHasPos_NotNone(pos) == pos # None

\* move_card: `if pos:` guards the second request.
MoveCardHasPos(pos) == Truthy(pos)

\* move_card's second request.
TrelloClient_move_card_pos(card_id, pos) ==
    Call("PUT", <<"", "cards", card_id, "pos">>, [value |-> pos[1]])

\* update_card_details with the truthiness tests of add_card_to_list.
TrelloClient_update_card_details_Truthy(card_id, name, description, dueDate, labels) ==
    LET p0 == EmptyDict
        p1 == IF Truthy(name) THEN SetItem(p0, "name", name[1]) ELSE p0
        p2 == IF Truthy(description) THEN SetItem(p1, "desc", description[1]) ELSE p1
        p3 == IF Truthy(dueDate) THEN SetItem(p2, "due", dueDate[1]) ELSE p2
        p4 == IF TruthyList(labels) THEN SetItem(p3, "idLabels", Join(labels[1])) ELSE p3
    IN  Call("PUT", <<"", "cards", card_id>>, p4)

TrelloClient_update_card_details(card_id, name, description, dueDate, labels) ==
    LET p0 == EmptyDict
        p1 == IF name # None THEN SetItem(p0, "name", name[1]) ELSE p0
        p2 == IF description # None THEN SetItem(p1, "desc", description[1]) ELSE p1
        p3 == IF dueDate # None THEN SetItem(p2, "due", dueDate[1]) ELSE p2
        p4 == IF labels # None THEN SetItem(p3, "idLabels", Join(labels[1])) ELSE p3
    IN  Call("PUT", <<"", "cards", card_id>>, p4)

TrelloClient_get_my_cards ==
    Call("GET", <<"", "members", "me", "cards">>, [fields |-> "id,name,idList,idBoard,url"])

TrelloClient_get_recent_activity(board_id, limit) ==
    Call("GET", <<"", "boards", board_id, "actions">>, [limit |-> ToString(limit)])

(***************************************************************************)
(* State                                                                   *)
(***************************************************************************)
VARIABLES
    env,                  \* os.environ: TRELLO_API_KEY, TRELLO_TOKEN, MCP_DEBUG
    _client,              \* the module-level client: None or the instance
    _active_board_id,     \* the active board: None or its id
    _active_workspace_id, \* the active workspace: None or its id
    instances,            \* how many TrelloClient instances have been constructed
    pc,                   \* where each caller's invocation stands
    args,                 \* the tool a caller invoked and its arguments
    local,                \* the invocation's local variables
    sent,                 \* the requests the invocation handed to the upstream service
    log,                  \* the log entries the invocation wrote
    result                \* what the invocation returned or raised

vars == <<env, _client, _active_board_id, _active_workspace_id, instances,
          pc, args, local, sent, log, result>>

globals == <<env, _client, _active_board_id, _active_workspace_id, instances>>

NoArgs ==
    [tool |-> "", boardId |-> None, listId |-> "", cardId |-> "", name |-> None,
     description |-> None, dueDate |-> None, labels |-> None, pos |-> None,
     imageUrl |-> "", workspaceId |-> "", limit |-> 10]

NoLocal == [board |-> None, client |-> None, made |-> None, phase |-> 1, data |-> NoJson]

NoResult ==
    [kind |-> "none", exc |-> "", msg |-> "", status |-> 0, body |-> NoJson,
     wrap |-> "", board |-> None, ws |-> None]

\* `return data`, or `return {wrap: data}`
Returned(data, wrap) == [NoResult EXCEPT !.kind = "return", !.body = data, !.wrap = wrap]

\* `raise TrelloError(msg)`; an upstream error's message holds the status and the body.
Raised(exc, msg, status, body) ==
    [NoResult EXCEPT !.kind = "raise", !.exc = exc, !.msg = msg, !.status = status,
                     !.body = body]

\* A record the logger writes: the values its message interpolates are in vals,
\* a dict it echoes in params.
LogEntry(level, text, status, params, vals) ==
    [level |-> level, text |-> text, status |-> status, params |-> params, vals |-> vals]

\* logger.info(f"tool:...") at the head of a tool.
ToolLog(text, vals) == LogEntry("INFO", text, 0, EmptyDict, vals)

\* os.environ.get(name) or None
OrNone(o) == IF Truthy(o) THEN o ELSE None

Init ==
    /\ \E c \in EnvCredentials, d \in BOOLEAN :
         env = [TRELLO_API_KEY |-> c.TRELLO_API_KEY, TRELLO_TOKEN |-> c.TRELLO_TOKEN,
                MCP_DEBUG |-> d]
    /\ _client = None
    /\ \E b \in OptOf("B1") : _active_board_id = OrNone(b)
    /\ \E w \in OptOf("W1") : _active_workspace_id = OrNone(w)
    /\ instances = 0
    /\ pc = [p \in Procs |-> "idle"]
    /\ args = [p \in Procs |-> NoArgs]
    /\ local = [p \in Procs |-> NoLocal]
    /\ sent = [p \in Procs |-> <<>>]
    /\ log = [p \in Procs |-> <<>>]
    /\ result = [p \in Procs |-> NoResult]

(***************************************************************************)
(* Steps shared by the tools                                               *)
(***************************************************************************)
\* A tool starts: its arguments are bound and its first log line is written.
Enter(p, a, entry, next) ==
    /\ pc[p] = "idle"
    /\ args' = [args EXCEPT ![p] = a]
    /\ log' = [log EXCEPT ![p] = <<entry>>]
    /\ pc' = [pc EXCEPT ![p] = next]

\* The invocation ends with a result.
Finish(p, r) ==
    /\ result' = [result EXCEPT ![p] = r]
    /\ pc' = [pc EXCEPT ![p] = "done"]

\* resolve_board with the operands swapped: _active_board_id or boardId.
resolve_board_ActiveFirst(p) ==
    /\ pc[p] = "resolve"
    /\ LET board == Or(_active_board_id, args[p].boardId)
       IN  IF ~Truthy(board)
           THEN /\ Finish(p, Raised("TrelloError", MsgNoBoard, 0, NoJson))
                /\ UNCHANGED local
           ELSE /\ local' = [local EXCEPT ![p].board = board]
                /\ pc' = [pc EXCEPT ![p] = "get_client"]
                /\ UNCHANGED result
    /\ UNCHANGED <<globals, args, sent, log>>

\* resolve_board that also makes the board it resolved the active board.
resolve_board_Sticky(p) ==
    /\ pc[p] = "resolve"
    /\ LET board == Or(args[p].boardId, _active_board_id)
       IN  IF ~Truthy(board)
           THEN /\ Finish(p, Raised("TrelloError", MsgNoBoard, 0, NoJson))
                /\ UNCHANGED <<local, _active_board_id>>
           ELSE /\ local' = [local EXCEPT ![p].board = board]
                /\ _active_board_id' = board
                /\ pc' = [pc EXCEPT ![p] = "get_client"]
                /\ UNCHANGED result
    /\ UNCHANGED <<env, _client, _active_workspace_id, instances, args, sent, log>>

\* board = boardId or _active_board_id; raise when falsy.
resolve_board(p) ==
    /\ pc[p] = "resolve"
    /\ LET board == Or(args[p].boardId, _active_board_id)
       IN  IF ~Truthy(board)
           THEN /\ Finish(p, Raised("TrelloError", MsgNoBoard, 0, NoJson))
                /\ UNCHANGED local
           ELSE /\ local' = [local EXCEPT ![p].board = board]
                /\ pc' = [pc EXCEPT ![p] = "get_client"]
                /\ UNCHANGED result
    /\ UNCHANGED <<globals, args, sent, log>>

\* get_client: if _client is None
get_client_check(p) ==
    /\ pc[p] = "get_client"
    /\ pc' = [pc EXCEPT ![p] = IF _client = None THEN "construct" ELSE "ret"]
    /\ UNCHANGED <<globals, args, local, sent, log, result>>

\* get_client: TrelloClient(api_key=..., token=..., debug=...) on the fresh environment.
get_client_construct(p) ==
    /\ pc[p] = "construct"
    /\ IF InitRaises(env.TRELLO_API_KEY, env.TRELLO_TOKEN)
       THEN /\ Finish(p, Raised("TrelloError", MsgNoCredentials, 0, NoJson))
            /\ UNCHANGED <<local, instances>>
       ELSE /\ instances' = instances + 1
            /\ local' = [local EXCEPT ![p].made =
                   Some(TrelloClient(instances + 1, env.TRELLO_API_KEY, env.TRELLO_TOKEN,
                                     env.MCP_DEBUG))]
            /\ pc' = [pc EXCEPT ![p] = "store"]
            /\ UNCHANGED result
    /\ UNCHANGED <<env, _client, _active_board_id, _active_workspace_id, args, sent, log>>

\* get_client: _client = <the new instance>
get_client_store(p) ==
    /\ pc[p] = "store"
    /\ _client' = local[p].made
    /\ pc' = [pc EXCEPT ![p] = "ret"]
    /\ UNCHANGED <<env, _active_board_id, _active_workspace_id, instances,
                   args, local, sent, log, result>>

\* get_client: return _client
get_client_return(p) ==
    /\ pc[p] = "ret"
    /\ local' = [local EXCEPT ![p].client = _client]
    /\ pc' = [pc EXCEPT ![p] = "call"]
    /\ UNCHANGED <<globals, args, sent, log, result>>

Range(f) == {f[i] : i \in DOMAIN f}

\* The helper of TrelloClient a tool calls once it holds the client. active is
\* _active_board_id as get_active_board_info reads it for the call.
ClientCall(a, l, active) ==
    CASE a.tool = "get_active_board_info" -> TrelloClient_get_board(Str(active))
      [] a.tool = "get_lists" -> TrelloClient_get_lists(l.board[1])
      [] a.tool = "add_list_to_board" -> TrelloClient_add_list_to_board(l.board[1], a.name[1])
      [] a.tool = "archive_list" -> TrelloClient_archive_list(a.listId)
      [] a.tool = "get_cards_by_list_id" -> TrelloClient_get_cards_by_list(a.listId)
      [] a.tool = "add_card_to_list" ->
           TrelloClient_add_card_to_list(a.listId, a.name[1], a.description, a.dueDate, a.labels)
      [] a.tool = "archive_card" -> TrelloClient_archive_card(a.cardId)
      [] a.tool = "attach_image_to_card" ->
           TrelloClient_attach_image_to_card(a.cardId, a.imageUrl, a.name)
      [] a.tool = "move_card" ->
           IF l.phase = 1 THEN TrelloClient_move_card(a.cardId, a.listId)
           ELSE TrelloClient_move_card_pos(a.cardId, a.pos)
      [] a.tool = "update_card_details" ->
           TrelloClient_update_card_details(a.cardId, a.name, a.description, a.dueDate, a.labels)
      [] a.tool = "list_boards" -> TrelloClient_list_boards
      [] a.tool = "list_boards_in_workspace" -> TrelloClient_list_boards_in_workspace(a.workspaceId)
      [] a.tool = "get_my_cards" -> TrelloClient_get_my_cards
      [] a.tool = "get_recent_activity" -> TrelloClient_get_recent_activity(l.board[1], a.limit)
      [] a.tool = "set_active_board" -> TrelloClient_get_board(a.boardId[1])

\* The request _request hands to self.client.request. The record also keeps how
\* the call of _request ended: state is "sent" while the request is in flight,
\* then "returned" (payload is the value returned), "raised" (status >= 400,
\* payload is the body the error carries) or "failed" (no response); status and
\* raw are the response's status code and body.
Outbound(self, call) ==
    [method |-> call.method, url |-> NormalizeUrl(call.path),
     params |-> AuthParams(self, call.params),
     state |-> "sent", status |-> 0, raw |-> "", payload |-> NoJson]

\* _request: logger.debug(f"[Trello] {method} {url} params={masked}")
RequestLog(self, req) ==
    IF self.debug
    THEN <<LogEntry("DEBUG", "[Trello] request", 0, Masked(req.params),
                    {req.method} \cup Range(req.url))>>
    ELSE <<>>

\* _request: logger.debug(f"[Trello] -> {resp.status_code}"), then for an error
\* status logger.warning(f"[Trello] ERROR {status} on {method} {url}: {data}")
ResponseLog(self, req, status, data) ==
    (IF self.debug THEN <<LogEntry("DEBUG", "[Trello] ->", status, EmptyDict, {})>> ELSE <<>>)
    \o (IF IsErrorStatus(status)
        THEN <<LogEntry("WARNING", "[Trello] ERROR", status, EmptyDict,
                        {req.method, data.key, data.val} \cup Range(req.url))>>
        ELSE <<>>)

\* _request up to self.client.request(...): the request goes out.
_request_send(p) ==
    /\ pc[p] = "call"
    /\ LET self == local[p].client[1]
           req == Outbound(self, ClientCall(args[p], local[p], _active_board_id))
       IN  /\ log' = [log EXCEPT ![p] = log[p] \o RequestLog(self, req)]
           /\ sent' = [sent EXCEPT ![p] = Append(sent[p], req)]
    /\ pc' = [pc EXCEPT ![p] = "await"]
    /\ UNCHANGED <<globals, args, local, result>>

\* What the tool does with the payload of a request that succeeded.
Continue(p, data) ==
    IF args[p].tool = "move_card" /\ local[p].phase = 1 /\ MoveCardHasPos(args[p].pos)
    THEN /\ local' = [local EXCEPT ![p].data = data, ![p].phase = 2]
         /\ pc' = [pc EXCEPT ![p] = "call"]
         /\ UNCHANGED result
    ELSE /\ UNCHANGED local
         /\ Finish(p, CASE args[p].tool = "move_card" /\ local[p].phase = 2 ->
                             Returned(local[p].data, "")
                        [] args[p].tool = "set_active_board" -> Returned(data, "active_board")
                        [] OTHER -> Returned(data, ""))

\* _request_receive with one retry: the first error status sends the request again.
_request_receive_Retry(p, status, raw) ==
    /\ pc[p] = "await"
    /\ LET self == local[p].client[1]
           n == Len(sent[p])
           data == ParseBody(raw)
       IN  /\ sent' = [sent EXCEPT ![p][n] =
                  [@ EXCEPT !.status = status, !.raw = raw,
                            !.state = IF IsErrorStatus(status) THEN "raised" ELSE "returned",
                            !.payload = IF IsErrorStatus(status) THEN ErrorMsg(data) ELSE data]]
           /\ log' = [log EXCEPT ![p] = log[p] \o ResponseLog(self, sent[p][n], status, data)]
           /\ IF IsErrorStatus(status)
              THEN IF n = 1
                   THEN /\ pc' = [pc EXCEPT ![p] = "call"]
                        /\ UNCHANGED <<local, result>>
                   ELSE /\ Finish(p, Raised("TrelloError", MsgApiError, status, ErrorMsg(data)))
                        /\ UNCHANGED local
              ELSE Continue(p, data)
    /\ UNCHANGED <<globals, args>>

\* _request from the response on: parse, log, raise on an error status or return.
_request_receive(p, status, raw) ==
    /\ pc[p] = "await"
    /\ LET self == local[p].client[1]
           n == Len(sent[p])
           data == ParseBody(raw)
       IN  /\ sent' = [sent EXCEPT ![p][n] =
                  [@ EXCEPT !.status = status, !.raw = raw,
                            !.state = IF IsErrorStatus(status) THEN "raised" ELSE "returned",
                            !.payload = IF IsErrorStatus(status) THEN ErrorMsg(data) ELSE data]]
           /\ log' = [log EXCEPT ![p] = log[p] \o ResponseLog(self, sent[p][n], status, data)]
           /\ IF IsErrorStatus(status)
              THEN /\ Finish(p, Raised("TrelloError", MsgApiError, status, ErrorMsg(data)))
                   /\ UNCHANGED local
              ELSE Continue(p, data)
    /\ UNCHANGED <<globals, args>>

\* self.client.request raises: no response arrives (timeout, connection error).
_request_fail(p) ==
    /\ pc[p] = "await"
    /\ sent' = [sent EXCEPT ![p][Len(sent[p])].state = "failed"]
    /\ Finish(p, Raised("TransportError", MsgTransport, 0, NoJson))
    /\ UNCHANGED <<globals, args, local, log>>

\* The result goes back to the caller, who may invoke the next tool.
tool_return(p) ==
    /\ pc[p] = "done"
    /\ pc' = [pc EXCEPT ![p] = "idle"]
    /\ args' = [args EXCEPT ![p] = NoArgs]
    /\ local' = [local EXCEPT ![p] = NoLocal]
    /\ sent' = [sent EXCEPT ![p] = <<>>]
    /\ log' = [log EXCEPT ![p] = <<>>]
    /\ result' = [result EXCEPT ![p] = NoResult]
    /\ UNCHANGED globals

(***************************************************************************)
(* The tools                                                               *)
(***************************************************************************)
\* What a tool's first step leaves alone unless it sets the active selection.
untouched == <<globals, local, sent, result>>

\* len(labels) if labels else 0
LabelsCount(labels) == IF TruthyList(labels) THEN Len(labels[1]) ELSE 0

\* get_server_info up to "active_board_id": _active_board_id of the dict it
\* builds; the entries of a dict display are evaluated in order.
get_server_info(p) ==
    /\ Enter(p, [NoArgs EXCEPT !.tool = "get_server_info"],
             ToolLog("tool:get_server_info", {}), "info_ws")
    /\ local' = [local EXCEPT ![p].board = _active_board_id]
    /\ UNCHANGED <<globals, sent, result>>

\* get_server_info: "active_workspace_id": _active_workspace_id, and the return.
get_server_info_return(p) ==
    /\ pc[p] = "info_ws"
    /\ Finish(p, [Returned(NoJson, "server_info") EXCEPT !.board = local[p].board,
                                                         !.ws = _active_workspace_id])
    /\ UNCHANGED <<globals, args, local, sent, log>>

get_active_board_info(p) ==
    /\ Enter(p, [NoArgs EXCEPT !.tool = "get_active_board_info"],
             ToolLog("tool:get_active_board_info", {}),
             IF ~Truthy(_active_board_id) THEN "done" ELSE "get_client")
    /\ result' = [result EXCEPT ![p] =
           IF ~Truthy(_active_board_id)
           THEN Raised("TrelloError", MsgNoActiveBoard, 0, NoJson)
           ELSE NoResult]
    /\ UNCHANGED <<globals, local, sent>>

get_lists(p, boardId) ==
    /\ Enter(p, [NoArgs EXCEPT !.tool = "get_lists", !.boardId = boardId],
             ToolLog("tool:get_lists", {Str(Or(boardId, _active_board_id))}),
             "resolve")
    /\ UNCHANGED untouched

add_list_to_board(p, name, boardId) ==
    /\ Enter(p, [NoArgs EXCEPT !.tool = "add_list_to_board", !.name = Some(name),
                          !.boardId = boardId],
             ToolLog("tool:add_list_to_board", {name, Str(Or(boardId, _active_board_id))}),
             "resolve")
    /\ UNCHANGED untouched

archive_list(p, listId) ==
    /\ Enter(p, [NoArgs EXCEPT !.tool = "archive_list", !.listId = listId],
             ToolLog("tool:archive_list", {listId}),
             "get_client")
    /\ UNCHANGED untouched

get_cards_by_list_id(p, listId) ==
    /\ Enter(p, [NoArgs EXCEPT !.tool = "get_cards_by_list_id", !.listId = listId],
             ToolLog("tool:get_cards_by_list_id", {listId}),
             "get_client")
    /\ UNCHANGED untouched

add_card_to_list(p, listId, name, description, dueDate, labels) ==
    /\ Enter(p, [NoArgs EXCEPT !.tool = "add_card_to_list", !.listId = listId,
                          !.name = Some(name), !.description = description,
                          !.dueDate = dueDate, !.labels = labels],
             ToolLog("tool:add_card_to_list",
                     {listId, name, Str(dueDate), ToString(LabelsCount(labels))}),
             "get_client")
    /\ UNCHANGED untouched

archive_card(p, cardId) ==
    /\ Enter(p, [NoArgs EXCEPT !.tool = "archive_card", !.cardId = cardId],
             ToolLog("tool:archive_card", {cardId}),
             "get_client")
    /\ UNCHANGED untouched

attach_image_to_card(p, cardId, imageUrl, name) ==
    /\ Enter(p, [NoArgs EXCEPT !.tool = "attach_image_to_card", !.cardId = cardId,
                          !.imageUrl = imageUrl, !.name = name],
             ToolLog("tool:attach_image_to_card", {cardId, ToString(Len(imageUrl)), Str(name)}),
             "get_client")
    /\ UNCHANGED untouched

move_card(p, cardId, listId, pos) ==
    /\ Enter(p, [NoArgs EXCEPT !.tool = "move_card", !.cardId = cardId, !.listId = listId,
                          !.pos = pos],
             ToolLog("tool:move_card", {cardId, listId, Str(pos)}),
             "get_client")
    /\ UNCHANGED untouched

update_card_details(p, cardId, name, description, dueDate, labels) ==
    /\ Enter(p, [NoArgs EXCEPT !.tool = "update_card_details", !.cardId = cardId,
                          !.name = name, !.description = description,
                          !.dueDate = dueDate, !.labels = labels],
             ToolLog("tool:update_card_details",
                     {cardId, Str(name), Str(dueDate), ToString(LabelsCount(labels))}),
             "get_client")
    /\ UNCHANGED untouched

list_boards(p) ==
    /\ Enter(p, [NoArgs EXCEPT !.tool = "list_boards"], ToolLog("tool:list_boards", {}),
             "get_client")
    /\ UNCHANGED untouched

list_boards_in_workspace(p, workspaceId) ==
    /\ Enter(p, [NoArgs EXCEPT !.tool = "list_boards_in_workspace", !.workspaceId = workspaceId],
             ToolLog("tool:list_boards_in_workspace", {workspaceId}),
             "get_client")
    /\ UNCHANGED untouched

get_my_cards(p) ==
    /\ Enter(p, [NoArgs EXCEPT !.tool = "get_my_cards"], ToolLog("tool:get_my_cards", {}),
             "get_client")
    /\ UNCHANGED untouched

get_recent_activity(p, limit, boardId) ==
    /\ Enter(p, [NoArgs EXCEPT !.tool = "get_recent_activity", !.limit = limit,
                          !.boardId = boardId],
             ToolLog("tool:get_recent_activity",
                     {ToString(limit), Str(Or(boardId, _active_board_id))}),
             "resolve")
    /\ UNCHANGED untouched

\* set_active_board without the assignment to _active_board_id.
set_active_board_NoWrite(p, boardId) ==
    /\ Enter(p, [NoArgs EXCEPT !.tool = "set_active_board", !.boardId = Some(boardId)],
             ToolLog("tool:set_active_board", {boardId}), "get_client")
    /\ UNCHANGED untouched

set_active_board(p, boardId) ==
    /\ Enter(p, [NoArgs EXCEPT !.tool = "set_active_board", !.boardId = Some(boardId)],
             ToolLog("tool:set_active_board", {boardId}), "get_client")
    /\ _active_board_id' = Some(boardId)
    /\ UNCHANGED <<env, _client, _active_workspace_id, instances, local, sent, result>>

set_active_workspace(p, workspaceId) ==
    /\ Enter(p, [NoArgs EXCEPT !.tool = "set_active_workspace", !.workspaceId = workspaceId],
             ToolLog("tool:set_active_workspace", {workspaceId}), "ws_ret")
    /\ _active_workspace_id' = Some(workspaceId)
    /\ UNCHANGED <<env, _client, _active_board_id, instances, local, sent, result>>

\* set_active_workspace_return with the argument echoed instead of the
\* stored value read back.
set_active_workspace_return_Echo(p) ==
    /\ pc[p] = "ws_ret"
    /\ Finish(p, [Returned(NoJson, "active_workspace_id") EXCEPT
                      !.ws = Some(args[p].workspaceId)])
    /\ UNCHANGED <<globals, args, local, sent, log>>

\* set_active_workspace: return {"active_workspace_id": _active_workspace_id}
set_active_workspace_return(p) ==
    /\ pc[p] = "ws_ret"
    /\ Finish(p, [Returned(NoJson, "active_workspace_id") EXCEPT !.ws = _active_workspace_id])
    /\ UNCHANGED <<globals, args, local, sent, log>>

(***************************************************************************)
(* Specifications                                                          *)
(***************************************************************************)
ImageUrls == {"http://img"}

\* The steps of an invocation under way.
Step(p) ==
    \/ resolve_board(p)
    \/ get_client_check(p)
    \/ get_client_construct(p)
    \/ get_client_store(p)
    \/ get_client_return(p)
    \/ _request_send(p)
    \/ \E status \in Statuses, raw \in RawBodies : _request_receive(p, status, raw)
    \/ _request_fail(p)
    \/ get_server_info_return(p)
    \/ set_active_workspace_return(p)
    \/ tool_return(p)

\* One caller, one invocation at a time, every tool with every argument shape.
Next ==
    \/ get_server_info(Main)
    \/ get_active_board_info(Main)
    \/ \E b \in OptBoardIds : get_lists(Main, b)
    \/ \E b \in OptBoardIds : add_list_to_board(Main, "todo", b)
    \/ \E l \in ListIds : archive_list(Main, l)
    \/ \E l \in ListIds : get_cards_by_list_id(Main, l)
    \/ \E l \in ListIds, d \in OptOf("text"), t \in OptOf("2026-01-01"), ls \in OptLabels :
         add_card_to_list(Main, l, "Task", d, t, ls)
    \/ \E c \in CardIds : archive_card(Main, c)
    \/ \E c \in CardIds, u \in ImageUrls, n \in OptOf("pic") : attach_image_to_card(Main, c, u, n)
    \/ \E c \in CardIds, l \in ListIds, ps \in OptOf("top") : move_card(Main, c, l, ps)
    \/ \E c \in CardIds, n \in OptOf("Task"), d \in OptOf("text"), t \in OptOf("2026-01-01"),
          ls \in OptLabels : update_card_details(Main, c, n, d, t, ls)
    \/ list_boards(Main)
    \/ \E w \in WorkspaceIds : list_boards_in_workspace(Main, w)
    \/ get_my_cards(Main)
    \/ \E n \in Limits, b \in OptBoardIds : get_recent_activity(Main, n, b)
    \/ \E b \in BoardIds : set_active_board(Main, b)
    \/ \E w \in WorkspaceIds : set_active_workspace(Main, w)
    \/ Step(Main)

Spec == Init /\ [][Next]_vars

\* Several callers at once; their steps interleave. The tools invoked are the
\* ones that read or write the active selection and one tool of the plain shape
\* (log line, get_client(), one helper call); the upstream service answers 200 or 404.
ConcNext ==
    \E p \in Procs :
        \/ get_server_info(p)
        \/ get_active_board_info(p)
        \/ get_lists(p, None)
        \/ list_boards(p)
        \/ \E b \in {"B1", "B2"} : set_active_board(p, b)
        \/ \E w \in {"W1", "W2"} : set_active_workspace(p, w)
        \/ resolve_board(p)
        \/ get_client_check(p)
        \/ get_client_construct(p)
        \/ get_client_store(p)
        \/ get_client_return(p)
        \/ _request_send(p)
        \/ _request_receive(p, 200, RawObject)
        \/ _request_receive(p, 404, RawText)
        \/ get_server_info_return(p)
        \/ set_active_workspace_return(p)
        \/ tool_return(p)

\* The process starts with its credentials set or unset and nothing selected.
ConcInit ==
    /\ Init
    /\ env.TRELLO_TOKEN = Some(TokenValue)
    /\ ~env.MCP_DEBUG
    /\ _active_board_id = None
    /\ _active_workspace_id = None

ConcSpec == ConcInit /\ [][ConcNext]_vars

(***************************************************************************)
(* Claims                                                                  *)
(***************************************************************************)
\* The credential values of the environment the process runs in.
Secrets == {Str(env.TRELLO_API_KEY), Str(env.TRELLO_TOKEN)} \ {"None", ""}

\* C1: every request handed to the upstream service carries both credential
\* fields, key and token, holding the configured (non-empty) values of the
\* client that sends it, whatever the tool and whatever parameters it supplied.
C1_EveryRequestAuthenticated ==
    \A p \in Procs : \A i \in DOMAIN sent[p] :
        LET r == sent[p][i]
            self == local[p].client[1]
        IN  /\ {"key", "token"} \subseteq DOMAIN r.params
            /\ r.params["key"] = self.api_key
            /\ r.params["token"] = self.token
            /\ r.params["key"] = Str(env.TRELLO_API_KEY)
            /\ r.params["token"] = Str(env.TRELLO_TOKEN)
            /\ r.params["key"] # ""
            /\ r.params["token"] # ""

\* A tool that supplies no parameters of its own has had its request answered.
C1_Witness ==
    \E p \in Procs :
        /\ args[p].tool = "get_cards_by_list_id"
        /\ Len(sent[p]) = 1
        /\ sent[p][1].state = "returned"
        /\ DOMAIN sent[p][1].params = {"key", "token"}

\* C2: no log entry of an invocation and no error it raises holds a credential
\* value; a log entry that echoes the request parameters shows both credential
\* fields as "***", for requests that succeed and for requests that fail.
C2_NoCredentialInLogsOrErrors ==
    \A p \in Procs :
        /\ \A i \in DOMAIN log[p] :
               LET e == log[p][i]
               IN  /\ e.vals \cap Secrets = {}
                   /\ \A k \in DOMAIN e.params : e.params[k] \notin Secrets
                   /\ e.text = "[Trello] request" =>
                          /\ {"key", "token"} \subseteq DOMAIN e.params
                          /\ e.params["key"] = "***"
                          /\ e.params["token"] = "***"
        /\ {result[p].msg, result[p].body.key, result[p].body.val} \cap Secrets = {}

\* With debug logging on, a request was logged, failed, and its error raised.
C2_Witness ==
    \E p \in Procs :
        /\ env.MCP_DEBUG
        /\ result[p].kind = "raise"
        /\ result[p].status = 404
        /\ \E i \in DOMAIN log[p] : log[p][i].text = "[Trello] request"
        /\ \E i \in DOMAIN log[p] : log[p][i].text = "[Trello] ERROR"

\* The value a response body parses to, {"text": body} when it does not parse.
C3_Parsed(raw) ==
    CASE raw = RawObject -> JsonDict("id", "x", "str")
      [] raw = RawArray -> JsonList("a")
      [] OTHER -> JsonDict("text", raw, "str")

\* What C3 says of every answered call of _request, given the body an error is
\* to carry for a response body: a status >= 400 raises an error with that
\* status and that body, which ends the invocation with no further request; a
\* status < 400 returns the parsed payload.
C3_Holds(ErrorBody(_)) ==
    \A p \in Procs : \A i \in DOMAIN sent[p] :
        LET r == sent[p][i]
        IN  r.state \in {"returned", "raised"} =>
                IF r.status >= 400
                THEN /\ r.state = "raised"
                     /\ r.payload = ErrorBody(r.raw)
                     /\ i = Len(sent[p])
                     /\ pc[p] = "done"
                     /\ result[p].kind = "raise"
                     /\ result[p].exc = "TrelloError"
                     /\ result[p].status = r.status
                     /\ result[p].body = ErrorBody(r.raw)
                ELSE /\ r.state = "returned"
                     /\ r.payload = C3_Parsed(r.raw)
                     /\ (i = Len(sent[p]) /\ pc[p] = "done") => result[p].kind = "return"

\* The body the error carries: the parsed body when it is an object, and
\* {"error": parsed body} when it is not.
C3_ErrorBody(raw) ==
    IF raw = RawArray THEN JsonDict("error", "a", "list") ELSE C3_Parsed(raw)

\* C3 (as stated): a status >= 400 raises an error that carries that status and
\* the parsed body (or {text: raw body}), and the request is not re-issued; a
\* status < 400 returns the parsed payload and raises nothing.
C3_ErrorCarriesParsedBody == C3_Holds(C3_Parsed)

\* C3 (amended): as stated, except that a body that parses to a value that is
\* not an object is carried as {"error": parsed body}.
C3_ErrorCarriesBodyAsObject == C3_Holds(C3_ErrorBody)

\* A 404 whose body parses to an array has raised.
C3_Witness ==
    \E p \in Procs :
        /\ sent[p] # <<>>
        /\ sent[p][Len(sent[p])].state = "raised"
        /\ sent[p][Len(sent[p])].status = 404
        /\ sent[p][Len(sent[p])].raw = RawArray
        /\ result[p].body = JsonDict("error", "a", "list")

\* The environment holds both credentials.
Configured == Truthy(env.TRELLO_API_KEY) /\ Truthy(env.TRELLO_TOKEN)

\* While set_active_board(B) runs and when it has ended, however it ended, the
\* active board is B.
C4_ActiveBoardIsSet ==
    \A p \in Procs : args[p].tool = "set_active_board" => _active_board_id = args[p].boardId

\* get_active_board_info() and get_lists() without boardId send their request
\* to the active board, and report a missing board only when none is active.
C4_Targets ==
    \A p \in Procs :
        /\ args[p].tool = "get_active_board_info" =>
               /\ \A i \in DOMAIN sent[p] :
                      sent[p][i].url = <<"", "boards", Str(_active_board_id)>>
               /\ result[p].msg = MsgNoActiveBoard => ~Truthy(_active_board_id)
               /\ (pc[p] = "done" /\ Truthy(_active_board_id) /\ Configured) =>
                      Len(sent[p]) = 1
        /\ (args[p].tool = "get_lists" /\ args[p].boardId = None) =>
               /\ \A i \in DOMAIN sent[p] :
                      sent[p][i].url = <<"", "boards", Str(_active_board_id), "lists">>
               /\ result[p].msg = MsgNoBoard => ~Truthy(_active_board_id)
               /\ (pc[p] = "done" /\ Truthy(_active_board_id) /\ Configured) =>
                      Len(sent[p]) = 1

\* A step that starts set_active_board(B) makes B the active board, and no
\* other step changes the active board.
C4_OnlySetOverwrites ==
    /\ \A p \in Procs :
           (pc[p] = "idle" /\ args'[p].tool = "set_active_board") =>
               _active_board_id' = args'[p].boardId
    /\ _active_board_id' # _active_board_id =>
           \E p \in Procs : pc[p] = "idle" /\ args'[p].tool = "set_active_board"

\* C4: once set_active_board(B) is invoked the active board is B, whether the
\* confirmation fetch succeeds, fails upstream or cannot be made; it stays B
\* until the next set_active_board, and get_active_board_info() and get_lists()
\* without boardId target it.
C4_SetActiveBoardTakesEffect ==
    /\ [](C4_ActiveBoardIsSet /\ C4_Targets)
    /\ [][C4_OnlySetOverwrites]_vars

\* set_active_board("B2") has failed and the active board is B2.
C4_Witness ==
    \E p \in Procs :
        /\ args[p].tool = "set_active_board"
        /\ args[p].boardId = Some("B2")
        /\ pc[p] = "done"
        /\ result[p].kind = "raise"
        /\ _active_board_id = Some("B2")

\* The tools whose board falls back to the active board.
BoardTools == {"get_lists", "add_list_to_board", "get_recent_activity"}

\* The board a request of a board tool goes to.
C5_Target(tool, r) ==
    CASE tool = "get_lists" ->
           IF Len(r.url) = 4 /\ r.url[2] = "boards" /\ r.url[4] = "lists"
           THEN Some(r.url[3]) ELSE None
      [] tool = "get_recent_activity" ->
           IF Len(r.url) = 4 /\ r.url[2] = "boards" /\ r.url[4] = "actions"
           THEN Some(r.url[3]) ELSE None
      [] tool = "add_list_to_board" ->
           IF "idBoard" \in DOMAIN r.params THEN Some(r.params["idBoard"]) ELSE None

\* C5: get_lists, add_list_to_board and get_recent_activity send their request
\* to the boardId argument when one is given (a non-empty string), otherwise to
\* the active board; with neither they raise "No board specified and no active
\* board is set." without asking for the client and without a request, with or
\* without credentials.
C5_BoardFallback ==
    \A p \in Procs :
        (args[p].tool \in BoardTools /\ pc[p] \notin {"idle", "resolve"}) =>
            LET want == IF Truthy(args[p].boardId) THEN args[p].boardId
                        ELSE _active_board_id
            IN  IF Truthy(want)
                THEN /\ result[p].msg # MsgNoBoard
                     /\ \A i \in DOMAIN sent[p] :
                            C5_Target(args[p].tool, sent[p][i]) = want
                     /\ (pc[p] = "done" /\ Configured) => Len(sent[p]) = 1
                ELSE /\ pc[p] = "done"
                     /\ result[p] = Raised("TrelloError", MsgNoBoard, 0, NoJson)
                     /\ sent[p] = <<>>
                     /\ local[p].client = None

\* With an active board B1, a tool given "B2" has had its request answered.
C5_Witness ==
    \E p \in Procs :
        /\ args[p].tool = "get_recent_activity"
        /\ args[p].boardId = Some("B2")
        /\ _active_board_id = Some("B1")
        /\ Len(sent[p]) = 1
        /\ sent[p][1].state = "returned"

\* C6: move_card sends PUT /cards/{id}/idList first; without pos that is its
\* only request; with pos it sends PUT /cards/{id}/pos once the first has
\* succeeded, and when that second request fails the error is raised and no
\* further request follows.
C6_MoveCardSequence ==
    \A p \in Procs :
        args[p].tool = "move_card" =>
            LET a == args[p]
                n == Len(sent[p])
            IN  /\ n <= 2
                /\ n >= 1 =>
                       /\ sent[p][1].method = "PUT"
                       /\ sent[p][1].url = <<"", "cards", a.cardId, "idList">>
                       /\ sent[p][1].params["value"] = a.listId
                /\ n = 2 =>
                       /\ Truthy(a.pos)
                       /\ sent[p][1].state = "returned"
                       /\ sent[p][2].method = "PUT"
                       /\ sent[p][2].url = <<"", "cards", a.cardId, "pos">>
                       /\ sent[p][2].params["value"] = a.pos[1]
                /\ (pc[p] = "done" /\ ~Truthy(a.pos) /\ Configured) => n = 1
                /\ (pc[p] = "done" /\ Truthy(a.pos) /\ n >= 1 /\ sent[p][1].state = "returned") =>
                       n = 2
                /\ (n = 2 /\ sent[p][2].state \in {"raised", "failed"}) =>
                       /\ pc[p] = "done"
                       /\ result[p].kind = "raise"
                       /\ result[p].status = sent[p][2].status

\* The list change succeeded and the position request was refused.
C6_Witness ==
    \E p \in Procs :
        /\ args[p].tool = "move_card"
        /\ Len(sent[p]) = 2
        /\ sent[p][1].state = "returned"
        /\ sent[p][2].state = "raised"
        /\ result[p].kind = "raise"

\* The tools that never call get_client().
LocalTools == {"get_server_info", "set_active_workspace"}

\* What C7 says of an environment without credentials, given the error a
\* finished invocation of an upstream tool is to have raised: no request is
\* ever sent and no client exists, the local tools return, and every other
\* tool raises that error.
C7_Holds(Expected(_)) ==
    ~Configured =>
        /\ instances = 0
        /\ _client = None
        /\ \A p \in Procs :
               /\ sent[p] = <<>>
               /\ pc[p] = "done" =>
                      IF args[p].tool \in LocalTools
                      THEN result[p].kind = "return"
                      ELSE result[p] = Raised("TrelloError", Expected(p), 0, NoJson)

C7_ConfigurationError(p) == MsgNoCredentials

\* The error of an upstream tool without credentials: the tool's own complaint
\* about a missing board when it has no board to use, else the missing credentials.
C7_FirstError(p) ==
    IF args[p].tool = "get_active_board_info" /\ ~Truthy(_active_board_id)
    THEN MsgNoActiveBoard
    ELSE IF args[p].tool \in BoardTools /\ ~Truthy(Or(args[p].boardId, _active_board_id))
    THEN MsgNoBoard
    ELSE MsgNoCredentials

\* C7 (as stated): without credentials every tool that needs upstream access
\* fails with the configuration error and sends nothing, while get_server_info
\* and set_active_workspace succeed.
C7_UpstreamToolsRaiseConfigurationError == C7_Holds(C7_ConfigurationError)

\* C7 (amended): as stated, except that a tool with no board to use fails with
\* its validation error, which it raises before it asks for the client.
C7_UpstreamToolsRaiseBeforeAnyRequest == C7_Holds(C7_FirstError)

\* Without credentials, a tool that needs the client has raised for want of them.
C7_Witness ==
    \E p \in Procs :
        /\ ~Configured
        /\ args[p].tool = "archive_card"
        /\ pc[p] = "done"
        /\ result[p].msg = MsgNoCredentials

\* The parameters of a request besides the two credentials.
C8_Sent(r) == [k \in DOMAIN r.params \ {"key", "token"} |-> r.params[k]]

\* ",".join of the label lists the tools are invoked with.
C8_Joined(labels) == IF labels = Some(<<"red", "blue">>) THEN "red,blue" ELSE ""

\* The parameters expected of a tool that sends each optional field for which
\* Sends(_) holds of the argument.
C8_Optional(a, keys, Sends(_, _)) ==
    [k \in {k \in keys :
              CASE k = "name" -> Sends(a.name, FALSE)
                [] k = "desc" -> Sends(a.description, FALSE)
                [] k = "due" -> Sends(a.dueDate, FALSE)
                [] k = "idLabels" -> Sends(a.labels, TRUE)} |->
        CASE k = "name" -> a.name[1]
          [] k = "desc" -> a.description[1]
          [] k = "due" -> a.dueDate[1]
          [] k = "idLabels" -> C8_Joined(a.labels)]

\* An optional argument (a list when isList, else a string) that is given and
\* not empty.
C8_NonEmpty(o, isList) == o # None /\ (IF isList THEN o[1] # <<>> ELSE o[1] # "")

\* An optional argument that is given.
C8_Given(o, isList) == o # None

\* What C8 says of the three tools, given the rule by which update_card_details
\* sends an optional field.
C8_Holds(UpdateSends(_, _)) ==
    \A p \in Procs : \A i \in DOMAIN sent[p] :
        LET a == args[p]
            got == C8_Sent(sent[p][i])
        IN  /\ a.tool = "add_card_to_list" =>
                got = Update([idList |-> a.listId, name |-> a.name[1]],
                             C8_Optional(a, {"desc", "due", "idLabels"}, C8_NonEmpty))
            /\ a.tool = "attach_image_to_card" =>
                got = Update([url |-> a.imageUrl], C8_Optional(a, {"name"}, C8_NonEmpty))
            /\ a.tool = "update_card_details" =>
                got = C8_Optional(a, {"name", "desc", "due", "idLabels"}, UpdateSends)

\* C8 (as stated): add_card_to_list, attach_image_to_card and update_card_details
\* send an optional field (name, desc, due, idLabels) only when the caller gave
\* it and never with an empty value; update_card_details with only cardId sends
\* nothing besides the credentials.
C8_OptionalFieldsNeverEmpty == C8_Holds(C8_NonEmpty)

\* C8 (amended): add_card_to_list and attach_image_to_card send an optional
\* field only when the caller gave it a non-empty value; update_card_details
\* sends every optional field the caller gave, an empty string or an empty
\* label list included (as an empty value), and with only cardId sends nothing
\* besides the credentials.
C8_OptionalFieldsAsGiven == C8_Holds(C8_Given)

\* update_card_details was given an empty name and no other field, and sent it.
C8_Witness ==
    \E p \in Procs :
        /\ args[p].tool = "update_card_details"
        /\ args[p].name = Some("")
        /\ args[p].description = None
        /\ Len(sent[p]) = 1
        /\ C8_Sent(sent[p][1]) = [name |-> ""]

\* C9: get_server_info and set_active_workspace send no request; every other
\* tool that passes its validation with credentials configured sends exactly
\* one, move_card with pos a second one after the first succeeded; no request
\* follows a request that failed, and no request is sent twice.
C9_OneCallPerOperation ==
    \A p \in Procs :
        LET a == args[p]
            n == Len(sent[p])
            valid == result[p].msg \notin {MsgNoActiveBoard, MsgNoBoard}
            two == /\ a.tool = "move_card"
                   /\ Truthy(a.pos)
                   /\ sent[p][1].state = "returned"
        IN  /\ a.tool \in LocalTools => n = 0
            /\ n <= 2
            /\ n = 2 =>
                   /\ a.tool = "move_card"
                   /\ Truthy(a.pos)
                   /\ sent[p][1].url # sent[p][2].url
            /\ \A i \in 1..(n - 1) : sent[p][i].state = "returned"
            /\ (pc[p] = "done" /\ a.tool \notin LocalTools /\ Configured /\ valid) =>
                   /\ n >= 1
                   /\ n = IF two THEN 2 ELSE 1

\* A tool's single request was refused and the invocation ended there.
C9_Witness ==
    \E p \in Procs :
        /\ args[p].tool = "archive_list"
        /\ pc[p] = "done"
        /\ Len(sent[p]) = 1
        /\ sent[p][1].state = "raised"

\* C10: at most one TrelloClient instance is ever constructed, and every
\* invocation that holds a client holds that instance.
C10_OneClientInstance ==
    /\ instances <= 1
    /\ \A p \in Procs : local[p].client # None => local[p].client = _client

\* The step starts an invocation of the tool by caller p.
Starts(p, tool) == pc[p] = "idle" /\ args'[p].tool = tool

\* What a step does to the stored selection: a step that starts
\* set_active_board(B) stores B as the active board, a step that starts
\* set_active_workspace(W) stores W as the active workspace, and no other step
\* changes either; so the stored value is at every moment the value of the
\* write that executed last (the starting value before any write).
C11_Writes ==
    /\ \A p \in Procs :
           /\ Starts(p, "set_active_board") => _active_board_id' = args'[p].boardId
           /\ Starts(p, "set_active_workspace") =>
                  _active_workspace_id' = Some(args'[p].workspaceId)
    /\ _active_board_id' # _active_board_id =>
           \E p \in Procs : Starts(p, "set_active_board")
    /\ _active_workspace_id' # _active_workspace_id =>
           \E p \in Procs : Starts(p, "set_active_workspace")

\* What a step that reads the selection observes: the value stored when the
\* step is taken. The reads are those of get_server_info (board, then
\* workspace), of set_active_workspace's return, of get_active_board_info (its
\* test, then its request) and of get_lists() without boardId (its log line,
\* then its board).
C11_Reads ==
    \A p \in Procs :
        /\ Starts(p, "get_server_info") => local'[p].board = _active_board_id
        /\ (pc[p] = "info_ws" /\ pc'[p] = "done") =>
               /\ result'[p].board = local[p].board
               /\ result'[p].ws = _active_workspace_id
        /\ (pc[p] = "ws_ret" /\ pc'[p] = "done") => result'[p].ws = _active_workspace_id
        /\ Starts(p, "get_active_board_info") =>
               IF Truthy(_active_board_id)
               THEN pc'[p] = "get_client" /\ result'[p].kind = "none"
               ELSE pc'[p] = "done" /\ result'[p].msg = MsgNoActiveBoard
        /\ (args[p].tool = "get_active_board_info" /\ pc[p] = "call" /\ pc'[p] = "await") =>
               sent'[p][Len(sent'[p])].url = <<"", "boards", Str(_active_board_id)>>
        /\ (Starts(p, "get_lists") /\ args'[p].boardId = None) =>
               log'[p][1].vals = {Str(_active_board_id)}
        /\ (args[p].tool = "get_lists" /\ args[p].boardId = None
              /\ pc[p] = "resolve" /\ pc'[p] # "resolve") =>
               IF Truthy(_active_board_id)
               THEN pc'[p] = "get_client" /\ local'[p].board = _active_board_id
               ELSE pc'[p] = "done" /\ result'[p].msg = MsgNoBoard

\* A request of get_lists() without boardId goes to the board its invocation
\* read, whatever has been stored since.
C11_RequestKeepsBoardRead ==
    \A p \in Procs :
        (args[p].tool = "get_lists" /\ args[p].boardId = None) =>
            \A i \in DOMAIN sent[p] :
                sent[p][i].url = <<"", "boards", Str(local[p].board), "lists">>

\* C11: when set_active_board / set_active_workspace calls run interleaved with
\* tools that read the active selection, each read observes the value stored at
\* the moment it is made, which is the value held before a racing write or the
\* value that write stored and never another one; and the stored board
\* (workspace) is always the value of the write that executed last, so it is
\* that value once all calls have finished.
C11_RacingReadsAndLastWriteWins ==
    /\ [][C11_Writes /\ C11_Reads]_vars
    /\ []C11_RequestKeepsBoardRead

\* get_lists() logged that no board was active, then read B1 stored by a racing
\* set_active_board and sent its request there; a later set_active_board stored
\* B2, which is the board now active.
C11_Witness ==
    \E p, q \in Procs :
        /\ args[p].tool = "get_lists"
        /\ args[p].boardId = None
        /\ log[p][1].vals = {"None"}
        /\ Len(sent[p]) = 1
        /\ sent[p][1].url = <<"", "boards", "B1", "lists">>
        /\ args[q].tool = "set_active_board"
        /\ args[q].boardId = Some("B2")
        /\ _active_board_id = Some("B2")

\* What a step may do to the active selection: the active board changes only
\* in the step that starts set_active_board, which leaves the active workspace
\* as it is; the active workspace changes only in the step that starts
\* set_active_workspace, which leaves the active board as it is; every step of
\* any other tool, and every later step of these two, leaves both as they are.
C12_Frame ==
    /\ _active_board_id' # _active_board_id =>
           /\ \E p \in Procs : Starts(p, "set_active_board")
           /\ _active_workspace_id' = _active_workspace_id
    /\ _active_workspace_id' # _active_workspace_id =>
           /\ \E p \in Procs : Starts(p, "set_active_workspace")
           /\ _active_board_id' = _active_board_id
    /\ \A p \in Procs :
           /\ Starts(p, "set_active_board") =>
                  _active_workspace_id' = _active_workspace_id
           /\ Starts(p, "set_active_workspace") => _active_board_id' = _active_board_id
           /\ (pc[p] # pc'[p]
                 /\ ~Starts(p, "set_active_board") /\ ~Starts(p, "set_active_workspace")) =>
                  /\ _active_board_id' = _active_board_id
                  /\ _active_workspace_id' = _active_workspace_id

\* C12: the active selection is changed only by the set operations:
\* set_active_board changes only the active board, set_active_workspace only
\* the active workspace, and every other tool, get_lists, add_list_to_board and
\* get_recent_activity with an explicit boardId and tools that fail included,
\* leaves both unchanged.
C12_OnlySetOperationsMutate == [][C12_Frame]_vars

\* add_list_to_board was given board B2 and was refused upstream; the active
\* board is still B1 and the active workspace still W1.
C12_Witness ==
    \E p \in Procs :
        /\ args[p].tool = "add_list_to_board"
        /\ args[p].boardId = Some("B2")
        /\ pc[p] = "done"
        /\ result[p].kind = "raise"
        /\ result[p].status = 404
        /\ _active_board_id = Some("B1")
        /\ _active_workspace_id = Some("W1")

====
